---- MODULE Spec2Model ----
(***************************************************************************)
(* Model of agengo_code/travel_assistant.py: the main travel-plan graph    *)
(* (`builder`, compiled as `graph` with interrupt_before and a             *)
(* checkpointer) and the dialogue sub-graph (`dialogue_builder`) that the  *)
(* main graph fans out to, one sub-execution per traveler.                 *)
(*                                                                         *)
(* The graphs run on LangGraph's superstep engine: the nodes scheduled in  *)
(* one step run in any order, their writes are applied together when the   *)
(* step ends (in task order, not completion order), and only then are the  *)
(* nodes of the next step scheduled.  A state key that was never written   *)
(* is absent from the dict a node receives, except keys with a reducer     *)
(* (operator.add), which start as the empty list.                          *)
(***************************************************************************)
EXTENDS Integers, Sequences, FiniteSets, TLC

\* ---------------------------------------------------------------- bounds
MaxTravelers == 2      \* longest travelers list the generation service returns
MaxRegens == 2         \* resumes with non-empty traveler feedback the model follows
MaxSamples == 3        \* most raw samples the forecast service returns
MaxUpdateLen == 2      \* longest list one update carries for a key
MaxSeedTurns == 3      \* largest max_num_turns a sub-graph run is started with

\* ------------------------------------------------------- program constants
SeedMaxNumTurns == 2   \* "max_num_turns": 2 in the Send seed

\* A state key that has never been written (state.get(key) gives None,
\* state[key] raises KeyError).
Absent == "<absent>"

FeedbackTexts == {"", "more museums"}

\* A key without a reducer: never written, or written with value v.
Unset == <<>>

Written(v) == <<v>>

VARIABLES
    cursor,                   \* node the main graph runs next, or "END"
    status,                   \* "running", "interrupted", "completed", "failed"
    weather,                  \* TravelGraphState.weather
    human_feedback_traveler,  \* TravelGraphState.human_feedback_traveler
    human_feedback_plan,      \* TravelGraphState.human_feedback_plan
    travelers,                \* TravelGraphState.travelers
    sections,                 \* TravelGraphState.sections (operator.add)
    final_plan,               \* TravelGraphState.final_plan
    sends,                    \* the Send list of the current fan-out
    subs,                     \* dialogueState of each conduct_dialogue_sub task
    city,                     \* TravelGraphState.city
    max_travelers,            \* TravelGraphState.max_travelers
    days,                     \* TravelGraphState.days
    world,                    \* the API key and what the geocoding and forecast
                              \* services answer in this run
    store,                    \* a state and two updates applied to it in turn
    ended,                    \* the tasks of the fan-out that have ended, in
                              \* the order they ended
    regens,                   \* resumes with non-empty feedback so far
    history                   \* main-graph events, in order

vars == <<cursor, status, weather, human_feedback_traveler, human_feedback_plan,
          travelers, sections, final_plan, sends, subs, city, max_travelers,
          days, world, store, ended, regens, history>>

EnvUnchanged == UNCHANGED <<city, max_travelers, days, world, store>>

\* Python truthiness of state.get(key): None and "" are falsy.
Truthy(v) == v # Absent /\ v # ""

\* ------------------------------------------------------------- messages
\* A message: its class, its name, whether its content contains the closing
\* phrase "Thank you so much for your help", how many context entries the
\* prompt that produced it held, and the task whose node produced it (0 for
\* the seed message, which the router writes).
HumanMessage(closing) ==
    [type |-> "human", name |-> "none", closing |-> closing, sources |-> 0, by |-> 0]

AIMessage(name, closing, sources, by) ==
    [type |-> "ai", name |-> name, closing |-> closing, sources |-> sources, by |-> by]

\* Annotated[list, operator.add]: an update is concatenated onto the value.
operator_add_replace(old, update) == update

operator_add(old, update) == old \o update

\* "Thank you so much for your help" in m.content
ClosingPhrase(m) == m.closing

\* get_buffer_string: one "<role>: <content>" line per message.
get_buffer_string(messages) ==
    [k \in 1..Len(messages) |->
        <<IF messages[k].type = "human" THEN "Human" ELSE "AI", messages[k].closing>>]

\* ------------------------------------------------------ dialogue sub-graph
\* len([m for m in messages if isinstance(m, AIMessage) and m.name == name])
num_responses(messages, name) ==
    Cardinality({k \in 1..Len(messages) :
                    messages[k].type = "ai" /\ messages[k].name = name})

route_messages_gt(messages, max_num_turns) ==
    IF num_responses(messages, "local") > max_num_turns
    THEN "save_dialogue"
    ELSE IF ClosingPhrase(messages[Len(messages) - 1])
         THEN "save_dialogue"
         ELSE "ask_question"

route_messages_last(messages, max_num_turns) ==
    IF num_responses(messages, "local") >= max_num_turns
    THEN "save_dialogue"
    ELSE IF ClosingPhrase(messages[Len(messages)])
         THEN "save_dialogue"
         ELSE "ask_question"

route_messages(messages, max_num_turns) ==
    IF num_responses(messages, "local") >= max_num_turns
    THEN "save_dialogue"
    ELSE IF ClosingPhrase(messages[Len(messages) - 1])
         THEN "save_dialogue"
         ELSE "ask_question"

\* The nodes scheduled after ask_question: both retrievals, in one step.
RetrievalNodes == {"search_web", "search_wikipedia"}

\* The seed state of one Send("conduct_dialogue_sub", {...}).
SendSeed(traveler) ==
    [traveler      |-> traveler,
     messages      |-> <<HumanMessage(FALSE)>>,
     max_num_turns |-> SeedMaxNumTurns,
     context       |-> <<>>,
     dialogue      |-> <<>>,
     sections      |-> <<>>,
     step          |-> "ask_question",
     done          |-> {}]

SubRunning(i) ==
    /\ cursor = "conduct_dialogue_sub"
    /\ status = "running"
    /\ i \in DOMAIN subs

MainUnchanged ==
    UNCHANGED <<cursor, status, weather, human_feedback_traveler,
                human_feedback_plan, travelers, sections, final_plan, sends,
                city, max_travelers, days, world, store, regens, history>>

generate_question_shared(i) ==
    /\ SubRunning(i)
    /\ subs[i].step = "ask_question"
    /\ \E closing \in BOOLEAN :
          subs' = [j \in DOMAIN subs |->
                     IF j = i
                     THEN [subs[j] EXCEPT !.messages = Append(@, AIMessage("none", closing, 0, i)),
                                          !.step = "search",
                                          !.done = {}]
                     ELSE [subs[j] EXCEPT !.messages = Append(@, AIMessage("none", closing, 0, i))]]
    /\ UNCHANGED ended
    /\ MainUnchanged

generate_question_closes(i) ==
    /\ SubRunning(i)
    /\ subs[i].step = "ask_question"
    /\ \E closing \in BOOLEAN :
          subs' = [subs EXCEPT ![i].messages = Append(@, AIMessage("none", closing, 0, i)),
                               ![i].step = IF closing THEN "save_dialogue" ELSE "search",
                               ![i].done = {}]
    /\ UNCHANGED ended
    /\ MainUnchanged

\* ask_question: the traveler's next question is appended to messages.
generate_question(i) ==
    /\ SubRunning(i)
    /\ subs[i].step = "ask_question"
    /\ \E closing \in BOOLEAN :
          subs' = [subs EXCEPT ![i].messages = Append(@, AIMessage("none", closing, 0, i)),
                               ![i].step = "search",
                               ![i].done = {}]
    /\ UNCHANGED ended
    /\ MainUnchanged

\* One retrieval node finishes.  Its {"context": [docs]} write is applied
\* when the step ends, i.e. when the other retrieval has finished too; the
\* writes of a step are applied in task-name order.
RetrievalDone_first(i, node) ==
    /\ SubRunning(i)
    /\ subs[i].step = "search"
    /\ node \notin subs[i].done
    /\ LET turn == num_responses(subs[i].messages, "local") + 1
       IN  subs' = [subs EXCEPT ![i].context = @ \o <<<<node, turn, i>>>>,
                                ![i].done = {},
                                ![i].step = "answer_question"]
    /\ UNCHANGED ended
    /\ MainUnchanged

RetrievalDone(i, node) ==
    /\ SubRunning(i)
    /\ subs[i].step = "search"
    /\ node \notin subs[i].done
    /\ LET done == subs[i].done \cup {node}
           turn == num_responses(subs[i].messages, "local") + 1
       IN  IF done = RetrievalNodes
           THEN subs' = [subs EXCEPT
                            ![i].context =
                                operator_add(@, <<<<"search_web", turn, i>>,
                                                  <<"search_wikipedia", turn, i>>>>),
                            ![i].done = {},
                            ![i].step = "answer_question"]
           ELSE subs' = [subs EXCEPT ![i].done = done]
    /\ UNCHANGED ended
    /\ MainUnchanged

search_web(i) == RetrievalDone(i, "search_web")

search_wikipedia(i) == RetrievalDone(i, "search_wikipedia")

generate_answer_unnamed(i, contents) ==
    /\ SubRunning(i)
    /\ subs[i].step = "answer_question"
    /\ \E closing \in contents :
          LET messages == Append(subs[i].messages,
                                 AIMessage("none", closing, Len(subs[i].context), i))
          IN  subs' = [subs EXCEPT
                          ![i].messages = messages,
                          ![i].step = route_messages(messages, subs[i].max_num_turns)]
    /\ UNCHANGED ended
    /\ MainUnchanged

\* answer_question: the local's answer, generated from the context and the
\* messages and named "local", is appended; then the conditional edge
\* route_messages picks the next node.  contents: what the generation
\* service may return (with or without the closing phrase).
generate_answer(i, contents) ==
    /\ SubRunning(i)
    /\ subs[i].step = "answer_question"
    /\ \E closing \in contents :
          LET messages == Append(subs[i].messages,
                                 AIMessage("local", closing, Len(subs[i].context), i))
          IN  subs' = [subs EXCEPT
                          ![i].messages = messages,
                          ![i].step = route_messages(messages, subs[i].max_num_turns)]
    /\ UNCHANGED ended
    /\ MainUnchanged

save_dialogue(i) ==
    /\ SubRunning(i)
    /\ subs[i].step = "save_dialogue"
    /\ subs' = [subs EXCEPT ![i].dialogue = get_buffer_string(subs[i].messages),
                            ![i].step = "write_section"]
    /\ UNCHANGED ended
    /\ MainUnchanged

\* write_section: one section, written from the traveler, the dialogue and
\* the context, is appended to the sub-graph's sections; the sub-graph ends.
write_section(i) ==
    /\ SubRunning(i)
    /\ subs[i].step = "write_section"
    /\ subs' = [subs EXCEPT
                   ![i].sections =
                       operator_add(@, <<[traveler |-> subs[i].traveler,
                                          turns    |-> Len(subs[i].dialogue) \div 2]>>),
                   ![i].step = "END"]
    /\ ended' = Append(ended, i)
    /\ MainUnchanged

\* ------------------------------------------------------------ get_weather
\* A raw sample: dt_txt is <<date, time>> (dt_txt[:10] is the date, a day
\* number here), temp is in tenths of a degree and pop in hundredths, so
\* round(x, 1) and round(x, 2) leave them as they are.
Dates == {1, 2, 3}

Descriptions == {"rain", "clear"}

Readings == {[temp |-> 182, pop |-> 40], [temp |-> 207, pop |-> 90]}

Samples ==
    {[dt_txt |-> <<date, "12:00:00">>, description |-> desc,
      temp |-> r.temp, pop |-> r.pop] :
        date \in Dates, desc \in Descriptions, r \in Readings}

\* What the services answer: whether OPENWEATHER_KEY is set, the outcome of
\* get_latlon, the outcome of the forecast request and, when it succeeds,
\* the samples of resp.json()["list"].
GoodWorlds ==
    {[key |-> TRUE, geocode |-> "ok", forecast |-> "ok", list |-> l] :
        l \in UNION {[1..n -> Samples] : n \in 0..MaxSamples}}

Fails(w) == ~w.key \/ w.geocode # "ok" \/ w.forecast # "ok"

FailingWorlds ==
    {w \in [key : BOOLEAN, geocode : {"ok", "unresolved", "unavailable"},
            forecast : {"ok", "unavailable", "malformed"}, list : {<<>>}] : Fails(w)}

Worlds == GoodWorlds \cup FailingWorlds

\* Three samples on one date: rain 18.2 0.4, rain 20.7 0.9, clear 18.2 0.4.
ExampleWorld ==
    [key |-> TRUE, geocode |-> "ok", forecast |-> "ok",
     list |-> <<[dt_txt |-> <<1, "12:00:00">>, description |-> "rain", temp |-> 182, pop |-> 40],
                [dt_txt |-> <<1, "12:00:00">>, description |-> "rain", temp |-> 207, pop |-> 90],
                [dt_txt |-> <<1, "12:00:00">>, description |-> "clear", temp |-> 182, pop |-> 40]>>]

\* The worlds the runs of the whole workflow are followed in.
MainWorlds ==
    {ExampleWorld,
     [key |-> TRUE, geocode |-> "ok", forecast |-> "unavailable", list |-> <<>>]}

DateOf(item) == item.dt_txt[1]

DatesIn(data) == {DateOf(data[k]) : k \in DOMAIN data}

MinOf(S) == CHOOSE x \in S : \A y \in S : x <= y

MaxOf(S) == CHOOSE x \in S : \A y \in S : x >= y

RECURSIVE Ascending(_)
Ascending(S) == IF S = {} THEN <<>> ELSE <<MinOf(S)>> \o Ascending(S \ {MinOf(S)})

RECURSIVE insertion_dates(_)
insertion_dates(data) ==
    IF data = <<>>
    THEN <<>>
    ELSE LET before == insertion_dates(SubSeq(data, 1, Len(data) - 1))
             date == DateOf(data[Len(data)])
         IN  IF \E k \in DOMAIN before : before[k] = date
             THEN before
             ELSE Append(before, date)

\* The keys of sorted(daily.items()): the dates of the samples, ascending.
sorted_dates(data) == Ascending(DatesIn(data))

\* seq[:n]
Slice(seq, n) ==
    IF n >= 0
    THEN SubSeq(seq, 1, IF n < Len(seq) THEN n ELSE Len(seq))
    ELSE SubSeq(seq, 1, IF Len(seq) + n > 0 THEN Len(seq) + n ELSE 0)

\* daily[date]: the samples of a date, in the order of the list.
ItemsOn(data, date) == SelectSeq(data, LAMBDA item : DateOf(item) = date)

\* rec["descs"].count(desc)
DescCount(items, desc) ==
    Cardinality({k \in DOMAIN items : items[k].description = desc})

\* max(set(rec["descs"]), key=rec["descs"].count): the first description of
\* highest count in the iteration order of the set, which is the order of
\* the strings' hashes and differs from one process to the next; any
\* description of highest count can be the result.
Summaries(items) ==
    LET descs == {items[k].description : k \in DOMAIN items}
    IN  {d \in descs : \A e \in descs : DescCount(items, d) >= DescCount(items, e)}

DayRecord(date, items, summary) ==
    [date     |-> date,
     summary  |-> summary,
     temp_max |-> MaxOf({items[k].temp : k \in DOMAIN items}),
     temp_min |-> MinOf({items[k].temp : k \in DOMAIN items}),
     pop_max  |-> MaxOf({items[k].pop : k \in DOMAIN items})]

\* The lists the aggregation of data can give for a trip of n days.
Aggregate(data, n) ==
    LET ds == Slice(sorted_dates(data), n)
        shown == {ds[k] : k \in DOMAIN ds}
    IN  {[k \in 1..Len(ds) |-> DayRecord(ds[k], ItemsOn(data, ds[k]), pick[ds[k]])] :
            pick \in {p \in [shown -> Descriptions] :
                         \A date \in shown : p[date] \in Summaries(ItemsOn(data, date))}}

ErrorRecord(message) == [error |-> message]

get_weather_noerror(w, n) ==
    IF Fails(w) THEN {<<>>} ELSE Aggregate(w.list, n)

\* get_weather(city, days): the lists it can return.  Every exception
\* inside the try block becomes an error record.
get_weather(w, n) ==
    IF ~w.key
    THEN {<<ErrorRecord("OpenWeather API key not set")>>}
    ELSE IF w.geocode # "ok" \/ w.forecast # "ok"
         THEN {<<ErrorRecord("Failed to get weather information")>>}
         ELSE Aggregate(w.list, n)

\* ------------------------------------------------------------ state keys
\* The keys declared with Annotated[list, operator.add], and one key declared
\* without a reducer.
AppendOnly == {"sections", "context"}

Keys == AppendOnly \cup {"weather"}

Entries == {"x", "y"}

Lists(n) == UNION {[1..k -> Entries] : k \in 0..n}

\* What a node may return: a value for some of the keys.
Updates ==
    UNION {{u \in [D -> Lists(MaxUpdateLen)] :
                "weather" \in D => u["weather"] = <<"x">>} : D \in SUBSET Keys}

\* The states the updates are applied to.
States ==
    {s \in [Keys -> Lists(1)] : s["weather"] = <<>>}

\* The state after a node's update: a key with the operator.add reducer gets
\* reducer(old, new), any other key of the update the new value, and a key
\* the update does not name keeps its value.
merge(s, u) ==
    [f \in DOMAIN s |->
        IF f \in DOMAIN u
        THEN IF f \in AppendOnly THEN operator_add(s[f], u[f]) ELSE u[f]
        ELSE s[f]]

\* One update that holds, for every key, what a holds and then what b holds.
concat(a, b) ==
    [f \in DOMAIN a \cup DOMAIN b |->
        (IF f \in DOMAIN a THEN a[f] ELSE <<>>) \o (IF f \in DOMAIN b THEN b[f] ELSE <<>>)]

\* The pair of updates is not applied yet.
Pending == store # Unset /\ Len(store[1].applied) < 2

apply_update(u) ==
    /\ Pending
    /\ store' = Written([s0      |-> store[1].s0,
                         cur     |-> merge(store[1].cur, u),
                         applied |-> Append(store[1].applied, u)])
    /\ UNCHANGED <<cursor, status, weather, human_feedback_traveler,
                   human_feedback_plan, travelers, sections, final_plan, sends,
                   subs, city, max_travelers, days, world, ended, regens,
                   history>>

\* ------------------------------------------------------------ main graph
interrupt_before_none == {}

interrupt_before == {"human_feedback_traveler_node"}

\* The status of the run when `node` is the next node to execute.
StatusAt(node) == IF node \in interrupt_before THEN "interrupted" ELSE "running"

Log(node, next) ==
    history \o <<node>> \o (IF StatusAt(next) = "interrupted" THEN <<"interrupt">> ELSE <<>>)

\* What the generation service may return as Perspectives.travelers on the
\* gen-th call: any number of travelers up to the bound.
GeneratedTravelers(gen) ==
    {[k \in 1..n |-> [name |-> k, gen |-> gen]] : n \in 0..MaxTravelers}

NumCreated == Cardinality({k \in 1..Len(history) : history[k] = "create_travelers"})

get_weather_info ==
    /\ cursor = "get_weather_info"
    /\ status = "running"
    /\ \E result \in get_weather(world, days) : weather' = Written(result)
    /\ cursor' = "create_travelers"
    /\ status' = StatusAt("create_travelers")
    /\ history' = Log("get_weather_info", "create_travelers")
    /\ EnvUnchanged
    /\ UNCHANGED <<human_feedback_traveler, human_feedback_plan, travelers,
                   sections, final_plan, sends, subs, ended, regens>>

create_travelers_consumes ==
    /\ cursor = "create_travelers"
    /\ status = "running"
    /\ travelers' \in GeneratedTravelers(NumCreated + 1)
    /\ human_feedback_traveler' = ""
    /\ cursor' = "human_feedback_traveler_node"
    /\ status' = StatusAt("human_feedback_traveler_node")
    /\ history' = Log("create_travelers", "human_feedback_traveler_node")
    /\ EnvUnchanged
    /\ UNCHANGED <<weather, human_feedback_plan,
                   sections, final_plan, sends, subs, ended, regens>>

create_travelers_accumulates ==
    /\ cursor = "create_travelers"
    /\ status = "running"
    /\ \E new \in GeneratedTravelers(NumCreated + 1) :
          travelers' = operator_add(travelers, new)
    /\ cursor' = "human_feedback_traveler_node"
    /\ status' = StatusAt("human_feedback_traveler_node")
    /\ history' = Log("create_travelers", "human_feedback_traveler_node")
    /\ EnvUnchanged
    /\ UNCHANGED <<weather, human_feedback_traveler, human_feedback_plan,
                   sections, final_plan, sends, subs, ended, regens>>

\* create_travelers returns {"travelers": ...} and no other key.
create_travelers ==
    /\ cursor = "create_travelers"
    /\ status = "running"
    /\ travelers' \in GeneratedTravelers(NumCreated + 1)
    /\ cursor' = "human_feedback_traveler_node"
    /\ status' = StatusAt("human_feedback_traveler_node")
    /\ history' = Log("create_travelers", "human_feedback_traveler_node")
    /\ EnvUnchanged
    /\ UNCHANGED <<weather, human_feedback_traveler, human_feedback_plan,
                   sections, final_plan, sends, subs, ended, regens>>

\* graph.update_state(config, {...}) while the run is suspended.
update_state ==
    /\ status = "interrupted"
    /\ \/ /\ human_feedback_traveler' \in FeedbackTexts
          /\ UNCHANGED human_feedback_plan
       \/ /\ human_feedback_plan' \in FeedbackTexts
          /\ UNCHANGED human_feedback_traveler
    /\ EnvUnchanged
    /\ UNCHANGED <<cursor, status, weather, travelers, sections, final_plan,
                   sends, subs, ended, regens, history>>

\* graph.stream(None, config): the suspended run continues at its cursor.
resume ==
    /\ status = "interrupted"
    /\ Truthy(human_feedback_traveler) => regens < MaxRegens
    /\ status' = "running"
    /\ regens' = IF Truthy(human_feedback_traveler) THEN regens + 1 ELSE regens
    /\ history' = history \o <<"resume">>
    /\ EnvUnchanged
    /\ UNCHANGED <<cursor, weather, human_feedback_traveler, human_feedback_plan,
                   travelers, sections, final_plan, sends, subs, ended>>

\* conduct_dialogue_router, the conditional edge of
\* human_feedback_traveler_node: "create_travelers", or a list of Sends to
\* conduct_dialogue_sub (goto names the target, sends the seed states).
conduct_dialogue_router_inv ==
    IF ~Truthy(human_feedback_traveler)
    THEN [goto |-> "create_travelers", sends |-> <<>>]
    ELSE [goto  |-> "conduct_dialogue_sub",
          sends |-> [k \in 1..Len(travelers) |-> SendSeed(travelers[k])]]

conduct_dialogue_router_notnone ==
    IF human_feedback_traveler # Absent
    THEN [goto |-> "create_travelers", sends |-> <<>>]
    ELSE [goto  |-> "conduct_dialogue_sub",
          sends |-> [k \in 1..Len(travelers) |-> SendSeed(travelers[k])]]

conduct_dialogue_router ==
    IF Truthy(human_feedback_traveler)
    THEN [goto |-> "create_travelers", sends |-> <<>>]
    ELSE [goto  |-> "conduct_dialogue_sub",
          sends |-> [k \in 1..Len(travelers) |-> SendSeed(travelers[k])]]

feedback_traveler_joins ==
    /\ cursor = "human_feedback_traveler_node"
    /\ status = "running"
    /\ LET route == conduct_dialogue_router
       IN  IF route.goto = "create_travelers"
           THEN /\ cursor' = "create_travelers"
                /\ status' = StatusAt("create_travelers")
                /\ history' = Log("human_feedback_traveler_node", "create_travelers")
                /\ UNCHANGED <<sends, subs, ended>>
           ELSE /\ sends' = [k \in 1..Len(route.sends) |-> route.sends[k].traveler]
                /\ subs' = route.sends
                /\ ended' = <<>>
                /\ cursor' = IF Len(route.sends) = 0 THEN "write_plan"
                                                     ELSE "conduct_dialogue_sub"
                /\ status' = StatusAt("conduct_dialogue_sub")
                /\ history' = Log("human_feedback_traveler_node", "conduct_dialogue_sub")
                                  \o <<"fan_out">>
    /\ EnvUnchanged
    /\ UNCHANGED <<weather, human_feedback_traveler, human_feedback_plan,
                   travelers, sections, final_plan, regens>>

\* human_feedback_traveler_node (feedback_traveler, a no-op) and its
\* conditional edge.  A Send list that is empty schedules nothing, and the
\* run ends.
feedback_traveler ==
    /\ cursor = "human_feedback_traveler_node"
    /\ status = "running"
    /\ LET route == conduct_dialogue_router
       IN  IF route.goto = "create_travelers"
           THEN /\ cursor' = "create_travelers"
                /\ status' = StatusAt("create_travelers")
                /\ history' = Log("human_feedback_traveler_node", "create_travelers")
                /\ UNCHANGED <<sends, subs, ended>>
           ELSE /\ sends' = [k \in 1..Len(route.sends) |-> route.sends[k].traveler]
                /\ subs' = route.sends
                /\ ended' = <<>>
                /\ cursor' = IF Len(route.sends) = 0 THEN "END" ELSE "conduct_dialogue_sub"
                /\ status' = IF Len(route.sends) = 0 THEN "completed"
                                                     ELSE StatusAt("conduct_dialogue_sub")
                /\ history' = Log("human_feedback_traveler_node", "conduct_dialogue_sub")
                                  \o <<"fan_out">>
    /\ EnvUnchanged
    /\ UNCHANGED <<weather, human_feedback_traveler, human_feedback_plan,
                   travelers, sections, final_plan, regens>>

RECURSIVE Outputs(_, _)
\* The sections outputs of tasks 1..n, concatenated in task order.
Outputs(ss, n) == IF n = 0 THEN <<>> ELSE Outputs(ss, n - 1) \o ss[n].sections

MergeOrder_completion == ended

\* The order in which the writes of the fan-out step are applied: the order
\* of the tasks, which is the order of the Send list.
MergeOrder == [k \in 1..Len(subs) |-> k]

JoinReady_any == \E i \in DOMAIN subs : subs[i].step = "END"

\* The fan-out step ends when every conduct_dialogue_sub task has ended.
JoinReady == \A i \in DOMAIN subs : subs[i].step = "END"

\* End of the fan-out step: each task's output is merged into the main
\* state (only `sections` is a key of TravelGraphState), and the edge
\* conduct_dialogue_sub -> write_plan schedules write_plan.
join_dialogues ==
    /\ cursor = "conduct_dialogue_sub"
    /\ status = "running"
    /\ Len(subs) > 0
    /\ JoinReady
    /\ sections' = operator_add(sections,
                                Outputs([k \in 1..Len(MergeOrder) |-> subs[MergeOrder[k]]],
                                        Len(MergeOrder)))
    /\ subs' = <<>>
    /\ cursor' = "write_plan"
    /\ status' = StatusAt("write_plan")
    /\ history' = Log("join", "write_plan")
    /\ EnvUnchanged
    /\ UNCHANGED <<weather, human_feedback_traveler, human_feedback_plan,
                   travelers, final_plan, sends, ended, regens>>

write_plan_clears ==
    /\ cursor = "write_plan"
    /\ status = "running"
    /\ history' = history \o <<"write_plan">>
    /\ sections' = <<>>
    /\ IF human_feedback_plan = Absent
       THEN /\ status' = "failed"
            /\ UNCHANGED <<cursor, final_plan>>
       ELSE /\ final_plan' = Written([sections |-> sections,
                                      weather  |-> weather,
                                      human_feedback_plan |-> human_feedback_plan])
            /\ cursor' = "END"
            /\ status' = "completed"
    /\ EnvUnchanged
    /\ UNCHANGED <<weather, human_feedback_traveler, human_feedback_plan,
                   travelers, sends, subs, ended, regens>>

\* write_plan reads state["human_feedback_plan"]: KeyError when the key was
\* never written, and the run fails.
write_plan ==
    /\ cursor = "write_plan"
    /\ status = "running"
    /\ history' = history \o <<"write_plan">>
    /\ IF human_feedback_plan = Absent
       THEN /\ status' = "failed"
            /\ UNCHANGED <<cursor, final_plan>>
       ELSE /\ final_plan' = Written([sections |-> sections,
                                      weather  |-> weather,
                                      human_feedback_plan |-> human_feedback_plan])
            /\ cursor' = "END"
            /\ status' = "completed"
    /\ EnvUnchanged
    /\ UNCHANGED <<weather, human_feedback_traveler, human_feedback_plan,
                   travelers, sections, sends, subs, ended, regens>>

\* The state of a run started with the given days, in a world of worlds.
\* The max_travelers a run is started with: the lists the generation
\* service returns are shorter than it, as long as it, and longer.
TravelerLimits == {1}

InitRun(worlds, dayset, stores) ==
    /\ city = "tokyo"
    /\ max_travelers \in TravelerLimits
    /\ days \in dayset
    /\ world \in worlds
    /\ store \in stores
    /\ cursor = "get_weather_info"
    /\ status = "running"
    /\ weather = Unset
    /\ human_feedback_traveler = Absent
    /\ human_feedback_plan = Absent
    /\ travelers = <<>>
    /\ sections = <<>>
    /\ final_plan = Unset
    /\ sends = <<>>
    /\ subs = <<>>
    /\ ended = <<>>
    /\ regens = 0
    /\ history = <<>>

Init == InitRun(MainWorlds, {2}, {Unset})

SubIds == 1..(MaxTravelers + 1)

Next ==
    \/ get_weather_info
    \/ create_travelers
    \/ update_state
    \/ resume
    \/ feedback_traveler
    \/ \E i \in SubIds : generate_question(i)
    \/ \E i \in SubIds : search_web(i)
    \/ \E i \in SubIds : search_wikipedia(i)
    \/ \E i \in SubIds : generate_answer(i, {FALSE})
    \/ \E i \in SubIds : save_dialogue(i)
    \/ \E i \in SubIds : write_section(i)
    \/ join_dialogues
    \/ write_plan

Spec == Init /\ [][Next]_vars

\* -------------------------------------------------- the updates on their own
\* Two updates applied in turn to a state, for every state and every pair.
InitMerge ==
    InitRun({ExampleWorld}, {2},
            {Written([s0 |-> s, cur |-> s, applied |-> <<>>]) : s \in States})

NextMerge == Pending /\ \E u \in Updates : apply_update(u)

SpecMerge == InitMerge /\ [][NextMerge]_vars

\* ---------------------------------------------------- the forecast on its own
\* get_weather_info and the node after it, for every answer of the services
\* and every trip length.
DayChoices == {0, 1, 2}

InitWeather == InitRun(Worlds, DayChoices, {Unset})

NextWeather == get_weather_info \/ create_travelers

SpecWeather == InitWeather /\ [][NextWeather]_vars

\* ------------------------------------------------ the sub-graph on its own
\* The conduct_dialogue_sub tasks of one fan-out, from the seeds the router
\* sends to the end of every task, with every content the generation
\* service may return.
InitDialogue ==
    /\ cursor = "conduct_dialogue_sub"
    /\ status = "running"
    /\ city = "tokyo"
    /\ max_travelers = 2
    /\ days = 2
    /\ world = ExampleWorld
    /\ store = Unset
    /\ weather \in {Written(result) : result \in get_weather(ExampleWorld, 2)}
    /\ human_feedback_traveler = Absent
    /\ human_feedback_plan = Absent
    /\ travelers \in {t \in GeneratedTravelers(1) : Len(t) > 0}
    /\ sections = <<>>
    /\ final_plan = Unset
    /\ sends = travelers
    /\ subs = [k \in 1..Len(travelers) |-> SendSeed(travelers[k])]
    /\ ended = <<>>
    /\ regens = 0
    /\ history = <<"get_weather_info", "create_travelers", "interrupt", "resume",
                   "human_feedback_traveler_node", "fan_out">>

DialogueStep(i) ==
    \/ generate_question(i)
    \/ search_web(i)
    \/ search_wikipedia(i)
    \/ generate_answer(i, BOOLEAN)
    \/ save_dialogue(i)
    \/ write_section(i)

NextDialogue == \E i \in SubIds : DialogueStep(i)

SpecDialogue == InitDialogue /\ [][NextDialogue]_vars

\* Every node call returns, so a task that can take a step takes it.
FairSpecDialogue ==
    SpecDialogue /\ \A i \in SubIds : WF_vars(DialogueStep(i))

\* ------------------------------------- the sub-graph started with any seed
\* The sub-graph of dialogue_builder run on seed states whose max_num_turns
\* is not the router's: one task with any max_num_turns from -1 up, next to
\* one with -1 or 0.
SeedChoices == (0 - 1)..MaxSeedTurns

SeedWith(traveler, n) == [SendSeed(traveler) EXCEPT !.max_num_turns = n]

InitDialogueSeeds ==
    /\ cursor = "conduct_dialogue_sub"
    /\ status = "running"
    /\ city = "tokyo"
    /\ max_travelers = 2
    /\ days = 2
    /\ world = ExampleWorld
    /\ store = Unset
    /\ weather \in {Written(result) : result \in get_weather(ExampleWorld, 2)}
    /\ human_feedback_traveler = Absent
    /\ human_feedback_plan = Absent
    /\ travelers = [k \in 1..2 |-> [name |-> k, gen |-> 1]]
    /\ sections = <<>>
    /\ final_plan = Unset
    /\ sends = travelers
    /\ \E n \in SeedChoices, m \in {0 - 1, 0} :
          subs = <<SeedWith(travelers[1], n), SeedWith(travelers[2], m)>>
    /\ ended = <<>>
    /\ regens = 0
    /\ history = <<"get_weather_info", "create_travelers", "interrupt", "resume",
                   "human_feedback_traveler_node", "fan_out">>

SpecDialogueSeeds == InitDialogueSeeds /\ [][NextDialogue]_vars

\* ------------------------------------------------------------ properties
Count(event) == Cardinality({k \in 1..Len(history) : history[k] = event})

Happened(event) == \E k \in 1..Len(history) : history[k] = event

\* Index of the last occurrence of event in history, 0 when there is none.
LastIndex(event) ==
    LET ks == {k \in 1..Len(history) : history[k] = event}
    IN  IF ks = {} THEN 0 ELSE CHOOSE k \in ks : \A j \in ks : j <= k

\* The events after position k.
After(k) == SubSeq(history, k + 1, Len(history))

IsPrefix(s, t) == Len(s) <= Len(t) /\ \A k \in 1..Len(s) : s[k] = t[k]

InterruptSince(k) == \E j \in (k + 1)..Len(history) : history[j] = "interrupt"

Questions(messages) ==
    {k \in 1..Len(messages) : messages[k].type = "ai" /\ messages[k].name = "none"}

Answers(messages) ==
    {k \in 1..Len(messages) : messages[k].type = "ai" /\ messages[k].name = "local"}

NoClosingQuestion(messages) == \A k \in Questions(messages) : ~messages[k].closing

Concluded(sub) == sub.step \in {"save_dialogue", "write_section", "END"}

\* C1: write_plan starts only after every conduct_dialogue_sub task of the
\* fan-out has ended and been merged: while a task exists write_plan has
\* neither been scheduled nor run, and when write_plan is scheduled the
\* main state's sections holds exactly one entry per Send, the k-th being
\* the section of the k-th traveler sent.
C1_FanOutJoin ==
    /\ subs # <<>> => (cursor = "conduct_dialogue_sub" /\ ~Happened("write_plan")
                        /\ ~Happened("join") /\ sections = <<>>)
    /\ (cursor = "write_plan" \/ Happened("write_plan")) =>
          /\ Happened("join")
          /\ subs = <<>>
          /\ Len(sends) > 0
          /\ Len(sections) = Len(sends)
          /\ \A k \in 1..Len(sends) : sections[k].traveler = sends[k]

C1_Witness ==
    /\ cursor = "write_plan"
    /\ status = "running"
    /\ ~Happened("write_plan")
    /\ Len(sends) = 2
    /\ Len(sections) = 2

\* C2: after the last resume, as long as the run has not suspended again and
\* the traveler feedback is empty or absent, the only main-graph events are
\* the no-op node, the fan-out, the join and write_plan, in that order:
\* create_travelers does not run, and the travelers sent are the travelers
\* of the state, all of them from the last create_travelers before the
\* suspension.
C2_ResumeCorrectness ==
    LET k == LastIndex("resume")
    IN  (k > 0 /\ ~InterruptSince(k) /\ ~Truthy(human_feedback_traveler)) =>
          /\ history[k - 1] = "interrupt"
          /\ history[k - 2] = "create_travelers"
          /\ IsPrefix(After(k), <<"human_feedback_traveler_node", "fan_out",
                                  "join", "write_plan">>)
          /\ cursor # "create_travelers"
          /\ Len(After(k)) >= 2 =>
                /\ sends = travelers
                /\ \A j \in 1..Len(sends) : sends[j].gen = Count("create_travelers")

C2_Witness ==
    /\ After(LastIndex("resume")) = <<"human_feedback_traveler_node", "fan_out">>
    /\ human_feedback_traveler = ""
    /\ Count("create_travelers") = 2
    /\ Len(sends) = 2
    /\ Len(subs) = 2

\* C3: the run's first three events are get_weather_info, create_travelers
\* and the suspension; human_feedback_traveler_node runs only right after a
\* resume of a suspension; before the first resume there is no routing, no
\* fan-out, no sub-execution and no write_plan; and a suspended run is
\* always suspended before human_feedback_traveler_node, right after
\* create_travelers.
C3_InterruptPoint ==
    /\ IsPrefix(history, <<"get_weather_info", "create_travelers", "interrupt">>)
       \/ IsPrefix(<<"get_weather_info", "create_travelers", "interrupt", "resume">>,
                   history)
    /\ \A k \in 1..Len(history) :
          /\ history[k] = "human_feedback_traveler_node" =>
                (k > 2 /\ history[k - 1] = "resume" /\ history[k - 2] = "interrupt")
          /\ history[k] = "interrupt" => (k > 1 /\ history[k - 1] = "create_travelers")
    /\ ~Happened("resume") =>
          /\ subs = <<>>
          /\ sends = <<>>
          /\ sections = <<>>
          /\ final_plan = Unset
          /\ cursor \in {"get_weather_info", "create_travelers",
                         "human_feedback_traveler_node"}
    /\ status = "interrupted" =>
          /\ cursor = "human_feedback_traveler_node"
          /\ history[Len(history)] = "interrupt"

C3_Witness ==
    /\ status = "interrupted"
    /\ history = <<"get_weather_info", "create_travelers", "interrupt">>
    /\ Len(travelers) = 2

\* C4: once human_feedback_traveler_node has run (and until the run suspends
\* again), the run is headed for create_travelers if and only if the
\* traveler feedback is non-empty; when it is empty or absent the next event
\* is the fan-out, with one Send per traveler of the state, in order, and
\* while the tasks run there is exactly one task per traveler, seeded with
\* that traveler.
C4_Routing ==
    LET k == LastIndex("human_feedback_traveler_node")
    IN  (k > 0 /\ ~InterruptSince(k)) =>
          /\ Truthy(human_feedback_traveler) <=> cursor = "create_travelers"
          /\ Truthy(human_feedback_traveler) => (After(k) = <<>> /\ subs = <<>>)
          /\ ~Truthy(human_feedback_traveler) =>
                /\ After(k) # <<>>
                /\ After(k)[1] = "fan_out"
                /\ sends = travelers
                /\ cursor = "conduct_dialogue_sub" =>
                      /\ Len(subs) = Len(travelers)
                      /\ \A j \in 1..Len(subs) : subs[j].traveler = travelers[j]
                /\ cursor # "conduct_dialogue_sub" => subs = <<>>

C4_Witness ==
    /\ LastIndex("human_feedback_traveler_node") = Len(history)
    /\ human_feedback_traveler = "more museums"
    /\ cursor = "create_travelers"
    /\ status = "running"

\* C5: in a sub-execution none of whose questions contains the closing
\* phrase, ask_question has never run more than max_num_turns times, and
\* once route_messages has chosen save_dialogue it has run exactly
\* max_num_turns times.
C5_LoopBound ==
    \A i \in DOMAIN subs :
        NoClosingQuestion(subs[i].messages) =>
            /\ Cardinality(Questions(subs[i].messages)) <= subs[i].max_num_turns
            /\ Concluded(subs[i]) =>
                  Cardinality(Questions(subs[i].messages)) = subs[i].max_num_turns

C5_Witness ==
    \E i \in DOMAIN subs :
        /\ subs[i].step = "save_dialogue"
        /\ NoClosingQuestion(subs[i].messages)
        /\ Cardinality(Questions(subs[i].messages)) = SeedMaxNumTurns

AllEnded == \A i \in DOMAIN subs : subs[i].step = "END"

\* What one step does to the count route_messages compares: it never
\* decreases, and a step of answer_question raises it by one.
CountStep ==
    \A i \in DOMAIN subs :
        /\ num_responses(subs'[i].messages, "local")
              >= num_responses(subs[i].messages, "local")
        /\ subs[i].step = "answer_question" /\ subs'[i] # subs[i] =>
              num_responses(subs'[i].messages, "local")
                 = num_responses(subs[i].messages, "local") + 1

\* C6: every sub-execution eventually ends (having run write_section), and
\* the number of "local" answers, which route_messages compares with
\* max_num_turns, never decreases and grows by one on every pass through
\* answer_question.
C6_Termination == <>AllEnded /\ [][CountStep]_vars

C6_Witness ==
    \E i \in DOMAIN subs :
        /\ subs[i].step = "END"
        /\ Len(subs[i].sections) = 1
        /\ num_responses(subs[i].messages, "local") = SeedMaxNumTurns

\* The last question of a conversation.
LastQuestion(messages) ==
    CHOOSE k \in Questions(messages) : \A j \in Questions(messages) : j <= k

\* C7: whenever the last message is the local's answer (route_messages has
\* just decided, or the sub-execution is past the decision), the decision
\* was save_dialogue exactly when the number of questions asked has reached
\* max_num_turns or the last question contains the closing phrase; the last
\* question is the message before the answer, and it is neither the seed
\* nor an answer.
C7_RoutingDecision ==
    \A i \in DOMAIN subs :
        LET m == subs[i].messages
        IN  (Len(m) > 1 /\ subs[i].step \notin {"search", "answer_question"}) =>
              /\ m[Len(m)].name = "local"
              /\ LastQuestion(m) = Len(m) - 1
              /\ LastQuestion(m) > 1
              /\ Concluded(subs[i]) <=>
                    \/ Cardinality(Questions(m)) >= subs[i].max_num_turns
                    \/ m[LastQuestion(m)].closing
              /\ subs[i].step = "ask_question" <=> ~Concluded(subs[i])

C7_Witness ==
    \E i \in DOMAIN subs :
        /\ subs[i].step = "save_dialogue"
        /\ Len(subs[i].messages) = 3
        /\ subs[i].messages[2].closing
        /\ ~subs[i].messages[3].closing

\* C8: while the retrievals of a turn run, neither has written context and
\* answer_question has not started; when answer_question is scheduled the
\* context holds the entries of both retrievals of every turn so far; and
\* there is one answer per question, each generated from a context that
\* held both entries of its turn.
C8_RetrievalJoin ==
    \A i \in DOMAIN subs :
        LET m == subs[i].messages
            q == Cardinality(Questions(m))
            a == Cardinality(Answers(m))
        IN  /\ subs[i].step = "search" =>
                  /\ subs[i].done # RetrievalNodes
                  /\ a = q - 1
                  /\ Len(subs[i].context) = 2 * a
            /\ subs[i].step = "answer_question" =>
                  /\ a = q - 1
                  /\ Len(subs[i].context) = 2 * q
                  /\ subs[i].context[2 * q - 1] = <<"search_web", q, i>>
                  /\ subs[i].context[2 * q] = <<"search_wikipedia", q, i>>
            /\ subs[i].step \notin {"search", "answer_question"} => a = q
            /\ \A k \in Answers(m) :
                  /\ k = 2 * Cardinality({j \in Answers(m) : j <= k}) + 1
                  /\ m[k].sources = 2 * Cardinality({j \in Answers(m) : j <= k})

C8_Witness ==
    \E i \in DOMAIN subs :
        /\ subs[i].step = "save_dialogue"
        /\ Len(subs[i].context) = 4
        /\ subs[i].messages[5].sources = 4

\* C9: write_plan runs at most once, only after the join; once it has run
\* the run is completed and final_plan is set, built from every section of
\* the state, the weather and the plan feedback, whether or not
\* human_feedback_plan was ever supplied.
C9_WritePlan ==
    /\ Count("write_plan") <= 1
    /\ Happened("write_plan") =>
          /\ Happened("join")
          /\ status = "completed"
          /\ final_plan # Unset
          /\ final_plan[1].sections = sections
          /\ final_plan[1].weather = weather

\* C10: when no plan feedback has been supplied, write_plan does not run,
\* final_plan is not set and the run does not fail; after the join such a
\* run is completed.
C10_NoOpTerminal ==
    ~Truthy(human_feedback_plan) =>
        /\ ~Happened("write_plan")
        /\ final_plan = Unset
        /\ status # "failed"
        /\ Happened("join") => status = "completed"

\* C11: a run started without plan feedback (only city, days and
\* max_travelers), which fanned out over N >= 1 travelers after a resume
\* with empty feedback, ends completed, with final_plan set and N sections.
C11_EndToEnd ==
    (human_feedback_plan = Absent /\ Len(sends) > 0
        /\ status \in {"completed", "failed"}) =>
        /\ status = "completed"
        /\ final_plan # Unset
        /\ Len(sections) = Len(sends)

\* C12: while the fan-out runs there is exactly one task per traveler of
\* the state, seeded with that traveler; every message of a task after the
\* seed message, every context entry and every section of it was produced
\* by a node of that same task, and a task that has not run a node yet
\* holds exactly its own seed.
C12_Isolation ==
    cursor = "conduct_dialogue_sub" =>
        /\ Len(subs) = Len(travelers)
        /\ \A i \in DOMAIN subs :
              /\ subs[i].traveler = travelers[i]
              /\ \A j \in DOMAIN subs : subs[j].traveler = subs[i].traveler => j = i
              /\ subs[i].messages[1] = HumanMessage(FALSE)
              /\ \A k \in 2..Len(subs[i].messages) : subs[i].messages[k].by = i
              /\ \A k \in 1..Len(subs[i].context) : subs[i].context[k][3] = i
              /\ \A k \in 1..Len(subs[i].sections) :
                    subs[i].sections[k].traveler = travelers[i]
              /\ Len(subs[i].messages) = 1 => subs[i] = SendSeed(travelers[i])

C12_Witness ==
    /\ cursor = "conduct_dialogue_sub"
    /\ Len(subs) = 2
    /\ Len(subs[1].messages) = 3
    /\ Len(subs[1].context) = 2
    /\ Len(subs[2].messages) = 5
    /\ Len(subs[2].context) = 4

\* C13: after the join the k-th section of the main state is the section of
\* the k-th traveler of the Send list, in whatever order the tasks ended.
C13_MergeOrder ==
    Happened("join") =>
        /\ Len(ended) = Len(sends)
        /\ Len(sections) = Len(sends)
        /\ \A k \in 1..Len(sections) : sections[k].traveler = sends[k]

C13_Witness ==
    /\ Happened("join")
    /\ ended = <<2, 1>>
    /\ Len(sections) = 2
    /\ sections[1].traveler = sends[1]
    /\ sections[1].turns # sections[2].turns

\* C14: no step of the main graph removes, replaces or reorders an entry of
\* sections: the sections before a step is a prefix of the sections after.
C14_AppendOnly == [][IsPrefix(sections, sections')]_vars

C14_Witness ==
    /\ Len(sections) = 2
    /\ status = "completed"
    /\ final_plan # Unset
    /\ final_plan[1].sections = sections

\* C15: two updates that name only append-only keys, applied one after the
\* other, give the state that their concatenation gives when applied once:
\* each append-only key holds its old entries, then the first update's, then
\* the second's, each in its own order; and whatever the updates name, a key
\* that an update does not name keeps its value.
TouchesOnly(u, keys) == DOMAIN u \subseteq keys

OrEmpty(u, f) == IF f \in DOMAIN u THEN u[f] ELSE <<>>

C15_Merge ==
    store # Unset =>
        LET s == store[1].s0
            cur == store[1].cur
            applied == store[1].applied
        IN  /\ Len(applied) = 1 =>
                \A f \in Keys : f \notin DOMAIN applied[1] => cur[f] = s[f]
            /\ Len(applied) = 2 =>
                LET a == applied[1]
                    b == applied[2]
                IN  /\ \A f \in Keys :
                        f \notin DOMAIN a \cup DOMAIN b => cur[f] = s[f]
                    /\ (TouchesOnly(a, AppendOnly) /\ TouchesOnly(b, AppendOnly)) =>
                        /\ cur = merge(s, concat(a, b))
                        /\ \A f \in AppendOnly :
                            cur[f] = s[f] \o OrEmpty(a, f) \o OrEmpty(b, f)
                        /\ cur["weather"] = s["weather"]

C15_Witness ==
    /\ store # Unset
    /\ Len(store[1].applied) = 2
    /\ LET s == store[1].s0
           a == store[1].applied[1]
           b == store[1].applied[2]
       IN  /\ DOMAIN a = {"sections"}
           /\ DOMAIN b = {"sections"}
           /\ s["sections"] = <<"x">>
           /\ s["context"] = <<"y">>
           /\ a["sections"] = <<"y", "x">>
           /\ b["sections"] = <<"x", "y">>
           /\ store[1].cur["sections"] = <<"x", "y", "x", "x", "y">>
           /\ store[1].cur["context"] = <<"y">>

\* C16: when the API key is missing, the location is not resolved or the
\* forecast request fails or answers malformed data, get_weather_info stores
\* a list of exactly one error record, nothing fails, and the run goes on to
\* create_travelers and to the interrupt, as it does with a good forecast.
IsErrorMarker(list) == Len(list) = 1 /\ DOMAIN list[1] = {"error"}

C16_ForecastFailure ==
    /\ status # "failed"
    /\ \/ /\ history = <<>>
          /\ cursor = "get_weather_info" /\ status = "running" /\ weather = Unset
       \/ /\ history = <<"get_weather_info">>
          /\ cursor = "create_travelers" /\ status = "running" /\ weather # Unset
       \/ /\ history = <<"get_weather_info", "create_travelers", "interrupt">>
          /\ cursor = "human_feedback_traveler_node" /\ status = "interrupted"
          /\ weather # Unset
    /\ (Fails(world) /\ weather # Unset) =>
          /\ IsErrorMarker(weather[1])
          /\ weather[1] \in get_weather(world, days)

C16_Witness ==
    /\ world.key
    /\ world.geocode = "unresolved"
    /\ weather # Unset
    /\ IsErrorMarker(weather[1])
    /\ status = "interrupted"
    /\ cursor = "human_feedback_traveler_node"
    /\ Len(travelers) > 0

\* C17: a good forecast has one record per date of the samples, the dates
\* ascending, and holds exactly the first `days` dates, all of them when
\* there are fewer: the k-th record's date has exactly k - 1 dates before it.
C17_ByDate ==
    (~Fails(world) /\ weather # Unset) =>
        LET out == weather[1]
            dates == DatesIn(world.list)
            n == Cardinality(dates)
        IN  /\ Len(out) = (IF days < n THEN days ELSE n)
            /\ Len(out) <= days
            /\ \A k \in 1..Len(out) :
                  /\ out[k].date \in dates
                  /\ Cardinality({d \in dates : d < out[k].date}) = k - 1

C17_Witness ==
    /\ ~Fails(world)
    /\ weather # Unset
    /\ days = 2
    /\ Len(world.list) = 3
    /\ DateOf(world.list[1]) = 3
    /\ DateOf(world.list[2]) = 1
    /\ DateOf(world.list[3]) = 2
    /\ Len(weather[1]) = 2
    /\ weather[1][1].date = 1
    /\ weather[1][2].date = 2

\* C18: the summary of a date is the description that occurs most often
\* among the date's samples and, of several that occur equally often, the
\* one met first in the samples; temp_max, temp_min and pop_max are the
\* highest temperature, the lowest temperature and the highest probability
\* of the date's samples.
FirstMostFrequent(items) ==
    LET best == {k \in DOMAIN items :
                    \A j \in DOMAIN items :
                        DescCount(items, items[k].description)
                            >= DescCount(items, items[j].description)}
    IN  items[MinOf(best)].description

C18_DaySummary ==
    (~Fails(world) /\ weather # Unset) =>
        \A k \in 1..Len(weather[1]) :
            LET day == weather[1][k]
                items == ItemsOn(world.list, day.date)
            IN  /\ day.summary = FirstMostFrequent(items)
                /\ \A j \in DOMAIN items :
                      /\ day.temp_max >= items[j].temp
                      /\ day.temp_min <= items[j].temp
                      /\ day.pop_max >= items[j].pop
                /\ \E j \in DOMAIN items : day.temp_max = items[j].temp
                /\ \E j \in DOMAIN items : day.temp_min = items[j].temp
                /\ \E j \in DOMAIN items : day.pop_max = items[j].pop

\* C19: human_feedback_traveler changes only in a step taken from outside
\* while the run is suspended, never in a node's step.  A resume with a
\* non-empty feedback runs the no-op node and create_travelers and suspends
\* again before the no-op node, once per such resume, however often the
\* feedback is left in place; and after a regeneration the fan-out is
\* reached only with the feedback set to empty.
FeedbackStep ==
    human_feedback_traveler' # human_feedback_traveler =>
        /\ status = "interrupted"
        /\ UNCHANGED <<cursor, status, travelers, sends, subs, regens, history>>

C19_Sticky ==
    /\ [][FeedbackStep]_vars
    /\ [](status = "interrupted" =>
            /\ cursor = "human_feedback_traveler_node"
            /\ Count("create_travelers") = regens + 1
            /\ regens > 0 =>
                  SubSeq(history, Len(history) - 3, Len(history))
                      = <<"resume", "human_feedback_traveler_node",
                          "create_travelers", "interrupt">>)
    /\ []((status = "running" /\ Truthy(human_feedback_traveler)
                /\ Happened("resume")) =>
            IsPrefix(After(LastIndex("resume")),
                     <<"human_feedback_traveler_node", "create_travelers">>))
    /\ []((Happened("fan_out") /\ regens > 0) => human_feedback_traveler = "")
    /\ [](Happened("fan_out") => ~Truthy(human_feedback_traveler))

C19_Witness ==
    /\ regens = 2
    /\ Count("create_travelers") = 3
    /\ Happened("fan_out")
    /\ human_feedback_traveler = ""
    /\ Len(sends) = 2
    /\ \A k \in 1..Len(sends) : sends[k].gen = 3

\* C20: the messages of a sub-execution are always the seed message followed
\* by (question, answer) pairs and at most one question still unanswered;
\* once route_messages has chosen save_dialogue every question is answered
\* and the number k of pairs satisfies 1 <= k <= max(1, max_num_turns),
\* also when a question held the closing phrase and when max_num_turns is 0
\* or negative.
IsQuestion(m) == m.type = "ai" /\ m.name = "none"

IsAnswer(m) == m.type = "ai" /\ m.name = "local"

C20_Shape ==
    \A i \in DOMAIN subs :
        LET messages == subs[i].messages
            k == (Len(messages) - 1) \div 2
            most == IF subs[i].max_num_turns > 1 THEN subs[i].max_num_turns ELSE 1
        IN  /\ messages[1] = HumanMessage(FALSE)
            /\ \A j \in 2..Len(messages) :
                  IF j % 2 = 0 THEN IsQuestion(messages[j]) ELSE IsAnswer(messages[j])
            /\ k <= most
            /\ Len(messages) <= 2 * most + 1
            /\ Concluded(subs[i]) =>
                  /\ Len(messages) = 2 * k + 1
                  /\ 1 <= k

C20_Witness ==
    /\ subs[1].max_num_turns = MaxSeedTurns
    /\ subs[1].step = "write_section"
    /\ Len(subs[1].messages) = 5
    /\ ~subs[1].messages[2].closing
    /\ subs[1].messages[4].closing
    /\ IsAnswer(subs[1].messages[5])
    /\ subs[2].max_num_turns = 0 - 1
    /\ subs[2].step = "write_section"
    /\ Len(subs[2].messages) = 3
    /\ IsAnswer(subs[2].messages[3])

\* C21: when the router runs with the traveler feedback empty or absent and
\* travelers is empty, no conduct_dialogue_sub task exists, nothing is
\* merged, write_plan never runs, and the run has ended with sections empty
\* and final_plan never written; the routing is the run's last event.
C21_EmptyFanOut ==
    (Happened("fan_out") /\ travelers = <<>>) =>
        /\ ~Truthy(human_feedback_traveler)
        /\ sends = <<>>
        /\ subs = <<>>
        /\ ended = <<>>
        /\ cursor = "END"
        /\ status = "completed"
        /\ sections = <<>>
        /\ final_plan = Unset
        /\ ~Happened("join")
        /\ ~Happened("write_plan")
        /\ history[Len(history)] = "fan_out"
        /\ history[Len(history) - 1] = "human_feedback_traveler_node"
        /\ history[Len(history) - 2] = "resume"

C21_Witness ==
    /\ Happened("fan_out")
    /\ travelers = <<>>
    /\ human_feedback_traveler = ""
    /\ regens = 1
    /\ Count("create_travelers") = 2
    /\ status = "completed"
    /\ final_plan = Unset

\* C22: a step of create_travelers leaves city, weather, days, max_travelers
\* and sections as they are, and after it travelers holds exactly the list
\* generated by that execution, nothing of an earlier one; get_weather_info
\* runs once, before the first create_travelers, however often personas are
\* regenerated; and the fan-out starts one conduct_dialogue_sub task per
\* traveler of the latest list, more or fewer than max_travelers alike.
CreateStep ==
    Count("create_travelers")' # Count("create_travelers") =>
        /\ UNCHANGED <<city, weather, days, max_travelers, sections>>
        /\ Count("create_travelers")' = Count("create_travelers") + 1
        /\ travelers' \in GeneratedTravelers(Count("create_travelers") + 1)

C22_Replace ==
    /\ [][CreateStep]_vars
    /\ [](/\ Count("get_weather_info") <= 1
          /\ Happened("create_travelers") =>
                /\ history[1] = "get_weather_info"
                /\ Count("get_weather_info") = 1
          /\ Count("create_travelers") <= regens + 1
          /\ \A k \in 1..Len(travelers) :
                travelers[k] = [name |-> k, gen |-> Count("create_travelers")]
          /\ Happened("fan_out") =>
                /\ sends = travelers
                /\ Len(sends) = Len(travelers)
          /\ cursor = "conduct_dialogue_sub" =>
                /\ Len(subs) = Len(travelers)
                /\ \A k \in 1..Len(subs) : subs[k].traveler = travelers[k])

C22_Witness ==
    /\ regens = 2
    /\ Count("create_travelers") = 3
    /\ Count("get_weather_info") = 1
    /\ max_travelers = 1
    /\ Len(travelers) = 2
    /\ cursor = "conduct_dialogue_sub"
    /\ Len(subs) = 2
    /\ sections = <<>>

====
